---- MODULE Spec2Model ----
(***************************************************************************)
(* cargo-readme: the rustdoc-to-markdown line transformer                  *)
(* (src/readme/transform.rs, DocTransformer).                              *)
(*                                                                         *)
(* A line is a sequence of one-character strings, so that the prefix tests *)
(* and the three regular expressions are computed character by character.  *)
(* The transformer wraps an iterator of lines; `iter` is what that         *)
(* iterator has not yielded yet.  One step of the model is one call of     *)
(* DocTransformer::next, made by a caller that pulls until it gets None.   *)
(***************************************************************************)
EXTENDS Integers, Sequences, FiniteSets, TLC

\* Longest input document explored.
MaxLen == 3

\* Longest document explored over the short vocabulary.
MaxLongLen == 5

\* Longest document given to each of two transformers.
MaxPairLen == 2

\* Longest document explored over the lines of the usage example.
MaxScenarioLen == 6

----------------------------------------------------------------------------
\* Characters and strings

Drop(s, n) == SubSeq(s, n + 1, Len(s))

\* str::starts_with
StartsWith(s, p) == Len(s) >= Len(p) /\ SubSeq(s, 1, Len(p)) = p

\* \w of the regex crate, restricted to the characters that occur in the
\* documents explored: letters, digits and the underscore.
WordChars ==
    { "a", "b", "c", "d", "e", "f", "g", "h", "i", "j", "k", "l", "m",
      "n", "o", "p", "q", "r", "s", "t", "u", "v", "w", "x", "y", "z",
      "C", "H", "0", "1", "2", "_" }

\* The grave accent cannot be written inside a TLA+ string: the character
\* U+0060 is written "BQ".  It is not a word character.
BQ == "BQ"
FENCE == << BQ, BQ, BQ >>
RUST == << "r", "u", "s", "t" >>
NO_RUN == << "n", "o", "_", "r", "u", "n" >>
IGNORE == << "i", "g", "n", "o", "r", "e" >>
SHOULD_PANIC == << "s", "h", "o", "u", "l", "d", "_", "p", "a", "n", "i", "c" >>
TEXT == << "t", "e", "x", "t" >>
COMMA == << "," >>
HASH == << "#" >>
HIDDEN_PREFIX == << "#", " " >>

\* Variants: the opener keeps no tag; the text opener keeps its tag.
RUST_FENCE_Bare == FENCE
BARE_FENCE_Tagged == FENCE \o TEXT

\* The literal lines the transformer writes.
RUST_FENCE == FENCE \o RUST

BARE_FENCE == FENCE

----------------------------------------------------------------------------
\* The three patterns

\* (no_run|ignore|should_panic)
RustAnnotations == { NO_RUN, IGNORE, SHOULD_PANIC }

\* Variant: the pattern without its optional (rust,)? group.
REGEX_CODE_RUST_NoPrefix(line) ==
    /\ StartsWith(line, FENCE)
    /\ LET tag == Drop(line, Len(FENCE))
       IN  tag = << >> \/ tag = RUST \/ tag \in RustAnnotations

\* ^```(rust|((rust,)?(no_run|ignore|should_panic)))?$
REGEX_CODE_RUST(line) ==
    /\ StartsWith(line, FENCE)
    /\ LET tag == Drop(line, Len(FENCE))
       IN  \/ tag = << >>
           \/ tag = RUST
           \/ tag \in RustAnnotations
           \/ /\ StartsWith(tag, RUST \o COMMA)
              /\ Drop(tag, Len(RUST \o COMMA)) \in RustAnnotations

\* ^```text$
REGEX_CODE_TEXT(line) == line = FENCE \o TEXT

\* Variant: the tag is word characters only, ^```\w+$.
REGEX_CODE_OTHER_WordsOnly(line) ==
    /\ StartsWith(line, FENCE)
    /\ LET tag == Drop(line, Len(FENCE))
       IN  /\ Len(tag) >= 1
           /\ \A k \in 1..Len(tag) : tag[k] \in WordChars

\* Variant: anything may follow the fence, ^```.*$.
REGEX_CODE_OTHER_AnyTag(line) == StartsWith(line, FENCE)

\* ^```\w[\w,\+]*$
REGEX_CODE_OTHER(line) ==
    /\ StartsWith(line, FENCE)
    /\ LET tag == Drop(line, Len(FENCE))
       IN  /\ Len(tag) >= 1
           /\ tag[1] \in WordChars
           /\ \A k \in 2..Len(tag) : tag[k] \in WordChars \cup { ",", "+" }

----------------------------------------------------------------------------
\* The documents explored

PYTHON == << "p", "y", "t", "h", "o", "n" >>
HTML == << "h", "t", "m", "l" >>
DJANGO == << "d", "j", "a", "n", "g", "o" >>

RustSpellings ==
    { FENCE,
      FENCE \o RUST,
      FENCE \o NO_RUN,
      FENCE \o IGNORE,
      FENCE \o SHOULD_PANIC,
      FENCE \o RUST \o COMMA \o NO_RUN,
      FENCE \o RUST \o COMMA \o IGNORE,
      FENCE \o RUST \o COMMA \o SHOULD_PANIC }

ForeignOpeners ==
    { FENCE \o << "C" >>,
      FENCE \o PYTHON,
      FENCE \o HTML \o COMMA \o DJANGO,
      FENCE \o HTML \o << "+" >> \o DJANGO }

ContentLines ==
    { << >>,
      << "x" >>,
      << "#" >>,
      << "#", " ", "h" >>,
      << "#", "#", " ", "h" >>,
      << "#", "[", "v", "]" >>,
      FENCE \o << " " >> }

Lines == RustSpellings \cup { FENCE \o TEXT } \cup ForeignOpeners \cup ContentLines

Documents == UNION { [1..n -> Lines] : n \in 0..MaxLen }

\* A short vocabulary for longer documents: the bare fence, a line that is a
\* heading outside a block and hidden inside a Rust block, a foreign opener
\* and a content line.
ShortLines == { FENCE, << "#", " ", "h" >>, FENCE \o PYTHON, << "x" >> }

LongDocuments == UNION { [1..n -> ShortLines] : n \in 0..MaxLongLen }

\* Fence-like lines: tags next to the Rust spellings, and openers that fit
\* none of the three patterns.
NearRustOpeners ==
    { FENCE \o RUST \o COMMA \o << "f", "o", "o" >>,
      FENCE \o << "c", "o", "m", "p", "i", "l", "e", "_", "f", "a", "i", "l" >>,
      FENCE \o RUST \o COMMA \o NO_RUN \o COMMA \o IGNORE }

UnrecognizedFences ==
    { FENCE \o << " " >>,
      FENCE \o << " " >> \o RUST,
      FENCE \o << "{", "." >> \o RUST \o << "}" >> }

FenceLines ==
    { FENCE, FENCE \o RUST, FENCE \o TEXT, << "#", " ", "h" >> }
        \cup NearRustOpeners \cup UnrecognizedFences

FenceDocuments == UNION { [1..n -> FenceLines] : n \in 0..MaxLen }

PairDocuments == UNION { [1..n -> ShortLines] : n \in 0..MaxPairLen }

\* The lines of the usage example: a heading, the bare fence, an attribute,
\* a statement and a hidden statement.
HEADING == << "#", " ", "h" >>
VISIBLE == << "#", "[", "v", "i", "s", "i", "b", "l", "e", "]" >>
LET_X == << "l", "e", "t", " ", "x", " ", "=", " ", "1", ";" >>
HIDDEN_LET ==
    << "#", " ", "l", "e", "t", " ", "h", "i", "d", "d", "e", "n", " ", "=",
       " ", "2", ";" >>

ScenarioLines == { HEADING, FENCE, VISIBLE, LET_X, HIDDEN_LET }

ScenarioDocuments == UNION { [1..n -> ScenarioLines] : n \in 0..MaxScenarioLen }

----------------------------------------------------------------------------
\* DocTransformer

Code == { "Rust", "Other", "None" }

VARIABLES
    iter,             \* the lines the wrapped iterator has not yielded yet
    indent_headings,  \* DocTransformer.indent_headings
    section,          \* DocTransformer.section
    out,              \* the lines returned as Some(line) so far, in order
    done,             \* the last call of next returned None
    pulls,            \* the number of calls of next so far
    log,              \* one record per line taken from iter: the section it
                      \* was read in, the line, what was emitted for it (<< >>
                      \* or << line >>) and the call that took it
    second,           \* a second DocTransformer over a document of its own:
                      \* the same fields in one record, and whether it exists
    proc              \* the cargo-readme process: main and execute

vars == << iter, indent_headings, section, out, done, pulls, log, second, proc >>

\* No second transformer has been constructed.
NoSecond ==
    [born |-> FALSE, iter |-> << >>, indent_headings |-> FALSE,
     section |-> "None", out |-> << >>, done |-> FALSE, pulls |-> 0,
     log |-> << >>]

\* The run is not a run of the command line.
NoProc ==
    [pc |-> "none", sub |-> FALSE, no_template |-> FALSE, fails |-> { },
     ran |-> << >>, stderr |-> << >>, exit |-> 0]

\* Variant: lines are hidden in every fenced block.
IsHidden_AnyFence(sec, line) == sec # "None" /\ StartsWith(line, HIDDEN_PREFIX)

\* Variant: every line of a Rust block that begins with # is hidden.
IsHidden_AnyHash(sec, line) == sec = "Rust" /\ StartsWith(line, HASH)

\* while self.section == Code::Rust && line.starts_with("# ")
IsHidden(sec, line) == sec = "Rust" /\ StartsWith(line, HIDDEN_PREFIX)

\* Variant: an `if` in place of the `while`, one hidden line skipped at most.
RECURSIVE SkipHidden_Once(_, _, _)
SkipHidden_Once(sec, it, n) ==
    IF it = << >>
    THEN [some |-> FALSE, line |-> << >>, rest |-> << >>, skipped |-> n]
    ELSE IF IsHidden(sec, Head(it)) /\ n = 0
         THEN SkipHidden_Once(sec, Tail(it), n + 1)
         ELSE [some |-> TRUE, line |-> Head(it), rest |-> Tail(it), skipped |-> n]

\* Variant: running out of input ends the loop instead of the call, and the
\* last hidden line is handed on.
RECURSIVE SkipHidden_BreakAtEnd(_, _, _)
SkipHidden_BreakAtEnd(sec, it, n) ==
    IF it = << >>
    THEN [some |-> FALSE, line |-> << >>, rest |-> << >>, skipped |-> n]
    ELSE IF IsHidden(sec, Head(it)) /\ Tail(it) # << >>
         THEN SkipHidden_BreakAtEnd(sec, Tail(it), n + 1)
         ELSE [some |-> TRUE, line |-> Head(it), rest |-> Tail(it), skipped |-> n]

\* Variant: the call peeks at the line after the one it returns and loses it.
RECURSIVE SkipHidden_ReadAhead(_, _, _)
SkipHidden_ReadAhead(sec, it, n) ==
    IF it = << >>
    THEN [some |-> FALSE, line |-> << >>, rest |-> << >>, skipped |-> n]
    ELSE IF IsHidden(sec, Head(it))
         THEN SkipHidden_ReadAhead(sec, Tail(it), n + 1)
         ELSE [some |-> TRUE, line |-> Head(it),
               rest |-> IF Tail(it) = << >> THEN << >> ELSE Tail(Tail(it)),
               skipped |-> n]

\* The first fetch and the loop that skips hidden lines: the number of lines
\* skipped, and the line the loop ends with, unless the iterator ran out.
RECURSIVE SkipHidden(_, _, _)
SkipHidden(sec, it, n) ==
    IF it = << >>
    THEN [some |-> FALSE, line |-> << >>, rest |-> << >>, skipped |-> n]
    ELSE IF IsHidden(sec, Head(it))
         THEN SkipHidden(sec, Tail(it), n + 1)
         ELSE [some |-> TRUE, line |-> Head(it), rest |-> Tail(it), skipped |-> n]

\* Variants: the flag is not consulted; the section is not consulted.
IndentsHeading_Always(indent, sec, line) == sec = "None" /\ StartsWith(line, HASH)
IndentsHeading_AnySection(indent, sec, line) == indent /\ StartsWith(line, HASH)

IndentsHeading(indent, sec, line) == indent /\ sec = "None" /\ StartsWith(line, HASH)

OpensRust(sec, line) == sec = "None" /\ REGEX_CODE_RUST(line)

\* Variant: the text pattern is tested in every section.
OpensText_AnySection(sec, line) == REGEX_CODE_TEXT(line)

OpensText(sec, line) == sec = "None" /\ REGEX_CODE_TEXT(line)

OpensOther(sec, line) == sec = "None" /\ REGEX_CODE_OTHER(line)

\* Variant: any line that begins with a fence closes the block.
Closes_Prefix(sec, line) == sec # "None" /\ StartsWith(line, FENCE)

Closes(sec, line) == sec # "None" /\ line = FENCE

\* Variant: nothing is inserted.
InsertHash_Noop(line) == line

\* line.insert(0, '#')
InsertHash(line) == HASH \o line

\* Variant: the other-language pattern is tested before the other two.
Rewrite_OtherFirst(indent, sec, line) ==
    IF IndentsHeading(indent, sec, line)
    THEN [line |-> InsertHash(line), section |-> sec]
    ELSE IF OpensOther(sec, line)
    THEN [line |-> line, section |-> "Other"]
    ELSE IF OpensRust(sec, line)
    THEN [line |-> RUST_FENCE, section |-> "Rust"]
    ELSE IF OpensText(sec, line)
    THEN [line |-> BARE_FENCE, section |-> "Other"]
    ELSE IF Closes(sec, line)
    THEN [line |-> line, section |-> "None"]
    ELSE [line |-> line, section |-> sec]

\* The if / else-if chain of next: the line returned and the new section.
Rewrite(indent, sec, line) ==
    IF IndentsHeading(indent, sec, line)
    THEN [line |-> InsertHash(line), section |-> sec]
    ELSE IF OpensRust(sec, line)
    THEN [line |-> RUST_FENCE, section |-> "Rust"]
    ELSE IF OpensText(sec, line)
    THEN [line |-> BARE_FENCE, section |-> "Other"]
    ELSE IF OpensOther(sec, line)
    THEN [line |-> line, section |-> "Other"]
    ELSE IF Closes(sec, line)
    THEN [line |-> line, section |-> "None"]
    ELSE [line |-> line, section |-> sec]

\* DocTransformer::new over one of the documents docs
New(docs) ==
    /\ iter \in docs
    /\ indent_headings \in BOOLEAN
    /\ section = "None"
    /\ out = << >>
    /\ done = FALSE
    /\ pulls = 0
    /\ log = << >>

Init ==
    /\ New(Documents)
    /\ second = NoSecond
    /\ proc = NoProc

\* Variant: a call made when the iterator is empty never returns.
next_HangsAtEnd ==
    /\ ~done
    /\ iter # << >>
    /\ LET f == SkipHidden(section, iter, 0)
           r == Rewrite(indent_headings, section, f.line)
           skippedLog == [k \in 1..f.skipped |->
                            [sec |-> section, line |-> iter[k],
                             res |-> << >>, pull |-> pulls + 1]]
       IN  /\ iter' = f.rest
           /\ pulls' = pulls + 1
           /\ IF f.some
              THEN /\ section' = r.section
                   /\ out' = Append(out, r.line)
                   /\ done' = FALSE
                   /\ log' = log \o skippedLog \o
                             << [sec |-> section, line |-> f.line,
                                 res |-> << r.line >>, pull |-> pulls + 1] >>
              ELSE /\ section' = section
                   /\ out' = out
                   /\ done' = TRUE
                   /\ log' = log \o skippedLog
    /\ UNCHANGED << indent_headings, second, proc >>

\* Variant: a block left open is closed when the input ends.
next_ClosesAtEnd ==
    /\ ~done
    /\ LET f == SkipHidden(section, iter, 0)
           r == Rewrite(indent_headings, section, f.line)
           skippedLog == [k \in 1..f.skipped |->
                            [sec |-> section, line |-> iter[k],
                             res |-> << >>, pull |-> pulls + 1]]
       IN  /\ iter' = f.rest
           /\ pulls' = pulls + 1
           /\ IF f.some
              THEN /\ section' = r.section
                   /\ out' = Append(out, r.line)
                   /\ done' = FALSE
                   /\ log' = log \o skippedLog \o
                             << [sec |-> section, line |-> f.line,
                                 res |-> << r.line >>, pull |-> pulls + 1] >>
              ELSE /\ section' = section
                   /\ out' = IF section # "None" THEN Append(out, FENCE) ELSE out
                   /\ done' = TRUE
                   /\ log' = log \o skippedLog
    /\ UNCHANGED << indent_headings, second, proc >>

\* Variant: the section is one cell shared by the transformers.
next_SharedSection ==
    /\ ~done
    /\ LET shared == IF second.born THEN second.section ELSE section
           f == SkipHidden(shared, iter, 0)
           r == Rewrite(indent_headings, shared, f.line)
           skippedLog == [k \in 1..f.skipped |->
                            [sec |-> section, line |-> iter[k],
                             res |-> << >>, pull |-> pulls + 1]]
       IN  /\ iter' = f.rest
           /\ pulls' = pulls + 1
           /\ IF f.some
              THEN /\ section' = r.section
                   /\ out' = Append(out, r.line)
                   /\ done' = FALSE
                   /\ log' = log \o skippedLog \o
                             << [sec |-> section, line |-> f.line,
                                 res |-> << r.line >>, pull |-> pulls + 1] >>
              ELSE /\ section' = section
                   /\ out' = out
                   /\ done' = TRUE
                   /\ log' = log \o skippedLog
    /\ UNCHANGED << indent_headings, second, proc >>

\* DocTransformer::next
next ==
    /\ ~done
    /\ LET f == SkipHidden(section, iter, 0)
           r == Rewrite(indent_headings, section, f.line)
           skippedLog == [k \in 1..f.skipped |->
                            [sec |-> section, line |-> iter[k],
                             res |-> << >>, pull |-> pulls + 1]]
       IN  /\ iter' = f.rest
           /\ pulls' = pulls + 1
           /\ IF f.some
              THEN /\ section' = r.section
                   /\ out' = Append(out, r.line)
                   /\ done' = FALSE
                   /\ log' = log \o skippedLog \o
                             << [sec |-> section, line |-> f.line,
                                 res |-> << r.line >>, pull |-> pulls + 1] >>
              ELSE /\ section' = section
                   /\ out' = out
                   /\ done' = TRUE
                   /\ log' = log \o skippedLog
    /\ UNCHANGED << indent_headings, second, proc >>

Next == next

Spec == Init /\ [][Next]_vars

\* Longer documents over the short vocabulary.
InitLong ==
    /\ New(LongDocuments)
    /\ second = NoSecond
    /\ proc = NoProc

\* Documents made of fence-like lines.
InitFence ==
    /\ New(FenceDocuments)
    /\ second = NoSecond
    /\ proc = NoProc

FenceSpec == InitFence /\ [][Next]_vars

\* Documents made of the lines of the usage example.
InitScenario ==
    /\ New(ScenarioDocuments)
    /\ second = NoSecond
    /\ proc = NoProc

ScenarioSpec == InitScenario /\ [][Next]_vars

\* DocTransformer::new for the second transformer
newSecond ==
    /\ ~second.born
    /\ \E d \in PairDocuments, flag \in BOOLEAN :
        second' = [born |-> TRUE, iter |-> d, indent_headings |-> flag,
                   section |-> "None", out |-> << >>, done |-> FALSE,
                   pulls |-> 0, log |-> << >>]
    /\ UNCHANGED << iter, indent_headings, section, out, done, pulls, log, proc >>

\* Variant: the section is one cell shared by the transformers.
nextSecond_SharedSection ==
    /\ second.born
    /\ ~second.done
    /\ LET f == SkipHidden(section, second.iter, 0)
           r == Rewrite(second.indent_headings, section, f.line)
           skippedLog == [k \in 1..f.skipped |->
                            [sec |-> section, line |-> second.iter[k],
                             res |-> << >>, pull |-> second.pulls + 1]]
       IN  IF f.some
           THEN /\ second' =
                     [second EXCEPT
                        !.iter = f.rest,
                        !.pulls = @ + 1,
                        !.out = Append(@, r.line),
                        !.log = @ \o skippedLog \o
                                << [sec |-> section, line |-> f.line,
                                    res |-> << r.line >>,
                                    pull |-> second.pulls + 1] >>]
                /\ section' = r.section
           ELSE /\ second' =
                     [second EXCEPT
                        !.iter = f.rest,
                        !.pulls = @ + 1,
                        !.done = TRUE,
                        !.log = @ \o skippedLog]
                /\ section' = section
    /\ UNCHANGED << iter, indent_headings, out, done, pulls, log, proc >>

\* DocTransformer::next of the second transformer
nextSecond ==
    /\ second.born
    /\ ~second.done
    /\ LET f == SkipHidden(second.section, second.iter, 0)
           r == Rewrite(second.indent_headings, second.section, f.line)
           skippedLog == [k \in 1..f.skipped |->
                            [sec |-> second.section, line |-> second.iter[k],
                             res |-> << >>, pull |-> second.pulls + 1]]
       IN  second' =
               IF f.some
               THEN [second EXCEPT
                        !.iter = f.rest,
                        !.pulls = @ + 1,
                        !.section = r.section,
                        !.out = Append(@, r.line),
                        !.log = @ \o skippedLog \o
                                << [sec |-> second.section, line |-> f.line,
                                    res |-> << r.line >>,
                                    pull |-> second.pulls + 1] >>]
               ELSE [second EXCEPT
                        !.iter = f.rest,
                        !.pulls = @ + 1,
                        !.done = TRUE,
                        !.log = @ \o skippedLog]
    /\ UNCHANGED << iter, indent_headings, section, out, done, pulls, log, proc >>

\* Two transformers over independent documents, the second constructed at
\* any moment of the first one's run, their calls interleaved in any order.
InitPair ==
    /\ New(PairDocuments)
    /\ second = NoSecond
    /\ proc = NoProc

PairNext == next \/ newSecond \/ nextSecond

PairSpec == InitPair /\ [][PairNext]_vars

\* DocTransformer::new(input, flag).collect(): the output of a transformer
\* run alone over a document.
RECURSIVE Collect(_, _, _, _)
Collect(it, flag, sec, acc) ==
    LET f == SkipHidden(sec, it, 0)
        r == Rewrite(flag, sec, f.line)
    IN  IF f.some
        THEN Collect(f.rest, flag, r.section, Append(acc, r.line))
        ELSE acc

RunAlone(doc, flag) == Collect(doc, flag, "None", << >>)

\* The caller is collect(): it calls next until next returns None.
FairSpec == InitLong /\ [][Next]_vars /\ WF_vars(next)

----------------------------------------------------------------------------
\* The command line (src/main.rs)

\* The calls of execute that can return Err, in the order execute makes them.
StepOrder == << "root", "source", "dest", "template", "generate", "write" >>
Steps == { StepOrder[k] : k \in DOMAIN StepOrder }

\* get_template_file is not called under --no-template.
Planned(no_template) ==
    SelectSeq(StepOrder, LAMBDA st : ~(no_template /\ st = "template"))

\* Variant: an Err is noted and the later calls are made all the same.
RECURSIVE RunSteps_KeepGoing(_, _, _)
RunSteps_KeepGoing(steps, fails, ran) ==
    IF steps = << >>
    THEN [ran |-> ran,
          err |-> LET bad == SelectSeq(ran, LAMBDA st : st \in fails)
                  IN  IF bad = << >> THEN << >> ELSE << Head(bad) >>]
    ELSE RunSteps_KeepGoing(Tail(steps), fails, Append(ran, Head(steps)))

\* The ? operator after each call: the calls made, in order, and the message
\* of the first Err, if any.  A failing call's message is its own name.
RECURSIVE RunSteps(_, _, _)
RunSteps(steps, fails, ran) ==
    IF steps = << >>
    THEN [ran |-> ran, err |-> << >>]
    ELSE IF Head(steps) \in fails
         THEN [ran |-> Append(ran, Head(steps)), err |-> << Head(steps) >>]
         ELSE RunSteps(Tail(steps), fails, Append(ran, Head(steps)))

\* execute
execute(fails, no_template) == RunSteps(Planned(no_template), fails, << >>)

\* format_args!("Error: {}\n", e)
ErrorLine(e) == << "Error: ", e >>

\* The transformer of a run that is a run of the command line is not observed.
InitCli ==
    /\ iter = << >>
    /\ indent_headings = FALSE
    /\ section = "None"
    /\ out = << >>
    /\ done = FALSE
    /\ pulls = 0
    /\ log = << >>
    /\ second = NoSecond
    /\ proc \in [pc : { "start" }, sub : BOOLEAN, no_template : BOOLEAN,
                 fails : SUBSET Steps, ran : { << >> }, stderr : { << >> },
                 exit : { 0 }]

\* main: the readme subcommand runs execute; an Err is written to stderr and
\* the process exits with status 1.
main ==
    /\ proc.pc = "start"
    /\ LET e == IF proc.sub
                THEN execute(proc.fails, proc.no_template)
                ELSE [ran |-> << >>, err |-> << >>]
       IN  proc' = [proc EXCEPT
                      !.pc = "exited",
                      !.ran = e.ran,
                      !.stderr = IF e.err = << >> THEN << >>
                                 ELSE << ErrorLine(e.err[1]) >>,
                      !.exit = IF e.err = << >> THEN 0 ELSE 1]
    /\ UNCHANGED << iter, indent_headings, section, out, done, pulls, log, second >>

CliNext == main

CliSpec == InitCli /\ [][CliNext]_vars

----------------------------------------------------------------------------
\* Derived views of a run

\* The lines taken from the wrapped iterator so far, and the whole document.
Consumed == [i \in 1..Len(log) |-> log[i].line]
Input == Consumed \o iter

ConsumedSecond == [i \in 1..Len(second.log) |-> second.log[i].line]
InputSecond == ConsumedSecond \o second.iter

\* The section after the i-th consumed line was handled.
SecAfter(i) == IF i < Len(log) THEN log[i + 1].sec ELSE section

TypeOK ==
    /\ iter \in Documents
    /\ indent_headings \in BOOLEAN
    /\ section \in Code
    /\ done \in BOOLEAN
    /\ pulls \in 0..(MaxLen + 1)
    /\ Len(out) <= MaxLen
    /\ Len(log) <= MaxLen
    /\ second = NoSecond
    /\ proc = NoProc

----------------------------------------------------------------------------
\* Vocabulary of the properties

HashLine(line) == StartsWith(line, HASH)
HiddenLine(line) == StartsWith(line, HIDDEN_PREFIX)

\* The lines that fit one of the three fence-open patterns.
OpenerLines == RustSpellings \cup { FENCE \o TEXT } \cup ForeignOpeners

\* The i-th consumed line was skipped by the hidden-line loop's condition.
HiddenAt(i) == log[i].sec = "Rust" /\ HiddenLine(log[i].line)

----------------------------------------------------------------------------
\* C1  Fence-tag canonicalization: each of the eight Rust spellings, read in
\* NoCode, is emitted as the line ```rust and moves the section to Rust,
\* whatever indent_headings is.
FenceTagCanonicalization ==
    \A i \in DOMAIN log :
        (log[i].sec = "None" /\ log[i].line \in RustSpellings)
            => /\ log[i].res = << FENCE \o RUST >>
               /\ SecAfter(i) = "Rust"

\* An annotated opener with the rust, prefix has been canonicalized, after a
\* first block was opened and closed, with indent_headings set.
FenceTagCanonicalizationWitness ==
    /\ indent_headings
    /\ Len(log) = 3
    /\ log[1].line = FENCE \o NO_RUN
    /\ log[2].line = FENCE
    /\ log[3].line = FENCE \o RUST \o COMMA \o SHOULD_PANIC
    /\ log[3].sec = "None"
    /\ out = << FENCE \o RUST, FENCE, FENCE \o RUST >>
    /\ section = "Rust"

\* C2  Hidden-line stripping only in Rust fences: a line that begins with
\* "# " is not emitted when read in Rust, and is emitted verbatim when read
\* in Other.
HiddenOnlyInRust ==
    \A i \in DOMAIN log :
        HiddenLine(log[i].line)
            => /\ log[i].sec = "Rust" => log[i].res = << >>
               /\ log[i].sec = "Other" => log[i].res = << log[i].line >>

\* A "# " line was kept inside a python block, with indent_headings set,
\* and the run is over.
HiddenOnlyInRustWitness ==
    /\ indent_headings
    /\ done
    /\ Len(log) = 3
    /\ log[1].line = FENCE \o PYTHON
    /\ log[2].line = << "#", " ", "h" >>
    /\ log[2].sec = "Other"
    /\ out = << FENCE \o PYTHON, << "#", " ", "h" >>, log[3].line >>

\* C3  Heading demotion by flag: a line that begins with # and is read in
\* NoCode is emitted with one # prepended when indent_headings is set and
\* unchanged when it is not; the section stays None.
HeadingDemotion ==
    \A i \in DOMAIN log :
        (log[i].sec = "None" /\ HashLine(log[i].line))
            => /\ log[i].res =
                     << IF indent_headings THEN << "#" >> \o log[i].line
                                           ELSE log[i].line >>
               /\ SecAfter(i) = "None"

\* A level-2 heading became a level-3 heading.
HeadingDemotionWitness ==
    /\ indent_headings
    /\ Len(log) >= 2
    /\ log[2].sec = "None"
    /\ log[2].line = << "#", "#", " ", "h" >>
    /\ Len(out) >= 2
    /\ out[2] = << "#", "#", "#", " ", "h" >>

\* C4  Zero or one output line per input line, in order: the lines removed
\* are exactly those beginning with "# " read in Rust, every other consumed
\* line has its own output line at the position its rank gives, and the
\* output is as long as the consumed input less the hidden lines.
KeptIdx == { i \in DOMAIN log : ~HiddenAt(i) }
Rank(i) == Cardinality({ k \in 1..i : ~HiddenAt(k) })
Variants(line) == { line, << "#" >> \o line, FENCE \o RUST, FENCE }

ZeroOrOneInOrder ==
    /\ Len(out) = Len(log) - Cardinality({ i \in DOMAIN log : HiddenAt(i) })
    /\ \A i \in DOMAIN log :
        IF HiddenAt(i)
        THEN log[i].res = << >>
        ELSE LET r == Rank(i)
             IN  /\ r \in DOMAIN out
                 /\ out[r] \in Variants(log[i].line)
                 /\ log[i].res = << out[r] >>
    /\ done => iter = << >>

\* Two hidden lines in a row were removed from a Rust block and the run is
\* over: three lines in, one line out.
ZeroOrOneInOrderWitness ==
    /\ done
    /\ Len(log) = 3
    /\ log[1].line = FENCE \o IGNORE
    /\ HiddenAt(2)
    /\ HiddenAt(3)
    /\ out = << FENCE \o RUST >>

\* C5  Fence-state invariant and transitions: the section starts as None and
\* is always one of the three; it leaves None only on a fence-open line,
\* returns to None only on the line ``` read inside a block, never goes from
\* Rust to Other or back directly, and changes on no other line; a tagged
\* opener read inside a block leaves the section as it is.
FenceStateTransitions ==
    /\ section \in Code
    /\ log = << >> => section = "None"
    /\ log # << >> => log[1].sec = "None"
    /\ \A i \in DOMAIN log :
        LET s == log[i].sec
            t == SecAfter(i)
            l == log[i].line
        IN  /\ s \in Code
            /\ (s = "None" /\ t # "None") => l \in OpenerLines
            /\ (s # "None" /\ t = "None") => l = FENCE
            /\ s # t => (s = "None" \/ t = "None")
            /\ (~(s = "None" /\ l \in OpenerLines) /\ ~(s # "None" /\ l = FENCE))
                   => t = s
            /\ (s # "None" /\ l \in OpenerLines \ { FENCE }) => t = s

\* A python opener was read inside a Rust block and left it open; the next
\* ``` closed it.
FenceStateTransitionsWitness ==
    /\ Len(log) = 3
    /\ log[1].line = FENCE
    /\ log[2].line = FENCE \o PYTHON
    /\ log[2].sec = "Rust"
    /\ log[3].sec = "Rust"
    /\ log[3].line = FENCE
    /\ section = "None"

\* C6  Text-fence detagging: the line ```text read in NoCode is emitted as
\* the bare fence and moves the section to Other; the lines of that block,
\* its closing fence included, are emitted as read, so that
\* ```text / line / ``` gives ``` / line / ```.
TextBlockAt(j) ==
    \E i \in 1..(j - 1) :
        /\ log[i].sec = "None"
        /\ log[i].line = FENCE \o TEXT
        /\ \A k \in (i + 1)..j : log[k].sec = "Other"

TextFenceDetagging ==
    /\ \A i \in DOMAIN log :
        /\ (log[i].sec = "None" /\ log[i].line = FENCE \o TEXT)
               => (log[i].res = << FENCE >> /\ SecAfter(i) = "Other")
        /\ TextBlockAt(i) => log[i].res = << log[i].line >>
    /\ (/\ Len(log) = 3
        /\ log[1].line = FENCE \o TEXT
        /\ log[2].line # FENCE
        /\ log[3].line = FENCE)
           => (out = << FENCE, log[2].line, FENCE >> /\ section = "None")

\* A text block holding a "# " line was read to its end with indent_headings
\* set.
TextFenceDetaggingWitness ==
    /\ indent_headings
    /\ done
    /\ Consumed = << FENCE \o TEXT, << "#", " ", "h" >>, FENCE >>
    /\ out = << FENCE, << "#", " ", "h" >>, FENCE >>
    /\ section = "None"

\* C7  Foreign fence passthrough: an opener with a foreign tag read in NoCode
\* is emitted as read and moves the section to Other; every line of that
\* block, its closing fence included, is emitted as read.
ForeignBlockAt(j) ==
    \E i \in 1..(j - 1) :
        /\ log[i].sec = "None"
        /\ log[i].line \in ForeignOpeners
        /\ \A k \in (i + 1)..j : log[k].sec = "Other"

ForeignFencePassthrough ==
    /\ \A i \in DOMAIN log :
        /\ (log[i].sec = "None" /\ log[i].line \in ForeignOpeners)
               => (log[i].res = << log[i].line >> /\ SecAfter(i) = "Other")
        /\ ForeignBlockAt(i) => log[i].res = << log[i].line >>
    /\ (/\ Len(log) = 3
        /\ log[1].line \in ForeignOpeners
        /\ log[2].line # FENCE
        /\ log[3].line = FENCE)
           => (out = Consumed /\ section = "None")

\* An html+django block holding a heading-like line was read to its end with
\* indent_headings set, and came out as it went in.
ForeignFencePassthroughWitness ==
    /\ indent_headings
    /\ done
    /\ Consumed = << FENCE \o HTML \o << "+" >> \o DJANGO,
                     << "#", "#", " ", "h" >>, FENCE >>
    /\ out = Consumed
    /\ section = "None"

\* C8  A canonical document: every fence opener is the line ```rust, no
\* hidden line is left in a Rust block, and with indent_headings set every
\* heading outside a block is already at level two or deeper.
Canonical ==
    \A i \in DOMAIN log :
        /\ (log[i].sec = "None" /\ log[i].line \in OpenerLines)
               => log[i].line = FENCE \o RUST
        /\ ~HiddenAt(i)
        /\ (indent_headings /\ log[i].sec = "None" /\ HashLine(log[i].line))
               => StartsWith(log[i].line, << "#", "#" >>)

\* C8 as stated: a canonical document is a fixed point of the transform for
\* either value of indent_headings.
IdempotenceOfFold == Canonical => out = Consumed

\* C8 amended: a canonical document is a fixed point of the transform when
\* indent_headings is not set, or when no line outside a block begins with #.
IdempotenceOfFoldAmended ==
    (/\ Canonical
     /\ indent_headings =>
            \A i \in DOMAIN log : ~(log[i].sec = "None" /\ HashLine(log[i].line)))
        => out = Consumed

\* A heading and a closed ```rust block came out as they went in, without
\* indent_headings.
IdempotenceOfFoldAmendedWitness ==
    /\ done
    /\ ~indent_headings
    /\ Consumed = << << "#", " ", "h" >>, FENCE \o RUST, FENCE >>
    /\ out = Consumed

\* C9  Hidden-line skipping runs before classification and closing: a hidden
\* line is dropped inside the call that read it, the call goes on to the
\* next line with the section still Rust, and the first line that is not
\* hidden is the one emitted, closing the block if it is ```; when the input
\* ends on a hidden line the call returns None and emits nothing.
HiddenSkipBeforeClassification ==
    /\ Len(out) = IF done THEN pulls - 1 ELSE pulls
    /\ \A i \in DOMAIN log :
        /\ ~HiddenAt(i) => log[i].pull = Rank(i)
        /\ HiddenAt(i) =>
            /\ log[i].res = << >>
            /\ i < Len(log) =>
                /\ log[i + 1].pull = log[i].pull
                /\ log[i + 1].sec = "Rust"
                /\ ~HiddenAt(i + 1) =>
                    /\ log[i + 1].res = << log[i + 1].line >>
                    /\ SecAfter(i + 1) =
                           IF log[i + 1].line = FENCE THEN "None" ELSE "Rust"
            /\ i = Len(log) =>
                /\ done
                /\ iter = << >>
                /\ section = "Rust"
                /\ log[i].pull = pulls

\* A hidden line was followed by ```: the second call dropped the one,
\* emitted the other and closed the block.
HiddenSkipBeforeClassificationWitness ==
    /\ Consumed = << FENCE, << "#", " ", "h" >>, FENCE >>
    /\ log[2].pull = 2
    /\ log[3].pull = 2
    /\ pulls = 2
    /\ out = << FENCE \o RUST, FENCE >>
    /\ section = "None"

\* C10  No heading indent inside a fence: with indent_headings set, a line
\* that begins with # but not with "# " read in Rust, and any line that
\* begins with # read in Other, is emitted as read.
NoHeadingIndentInFence ==
    \A i \in DOMAIN log :
        (/\ indent_headings
         /\ HashLine(log[i].line)
         /\ \/ log[i].sec = "Rust" /\ ~HiddenLine(log[i].line)
            \/ log[i].sec = "Other")
            => log[i].res = << log[i].line >>

\* An attribute line was read in a Rust block with indent_headings set and
\* emitted as read.
NoHeadingIndentInFenceWitness ==
    /\ indent_headings
    /\ Len(log) >= 2
    /\ log[1].line = FENCE
    /\ log[2].sec = "Rust"
    /\ log[2].line = << "#", "[", "v", "]" >>
    /\ Len(out) >= 2
    /\ out[2] = << "#", "[", "v", "]" >>

\* C11  Streaming, no read-ahead: a call takes from the iterator the hidden
\* lines it drops and the one line it emits, nothing more and nothing less;
\* when a line has just been emitted it is the last line consumed; what was
\* emitted is never revised, and the next call goes on with the line that
\* follows, in the section the last call left.
StreamingNoReadAhead ==
    /\ []((~done /\ log # << >>) =>
            /\ log[Len(log)].res = << out[Len(out)] >>
            /\ log[Len(log)].pull = pulls)
    /\ [][/\ Input' = Input
          /\ SubSeq(log', 1, Len(log)) = log
          /\ SubSeq(out', 1, Len(out)) = out
          /\ Len(log') > Len(log) =>
                /\ log'[Len(log) + 1].line = Head(iter)
                /\ log'[Len(log) + 1].sec = section
          /\ out' # out =>
                /\ Len(out') = Len(out) + 1
                /\ \A k \in (Len(log) + 1)..(Len(log') - 1) : log'[k].res = << >>]_vars

\* The second call dropped a hidden line and emitted the line after it: three
\* lines consumed, two emitted, one still in the iterator.
StreamingNoReadAheadWitness ==
    /\ ~done
    /\ pulls = 2
    /\ Len(log) = 3
    /\ log[1].line = FENCE \o RUST
    /\ HiddenAt(2)
    /\ log[3].line = << "x" >>
    /\ out = << FENCE \o RUST, << "x" >> >>
    /\ section = "Rust"

\* C12  Unterminated fence: when the input ends inside a block, the output
\* has one line for each input line that is not hidden and ends with the
\* line emitted for the last of them, as read when it was read inside the
\* block; no closing fence is added.  ```rust / line gives ```rust / line.
LastKept == CHOOSE m \in KeptIdx : \A k \in KeptIdx : k <= m

UnterminatedFence ==
    /\ (done /\ section # "None") =>
        /\ Len(out) = Rank(Len(log))
        /\ KeptIdx # { }
        /\ LET last == log[LastKept]
           IN  /\ last.res = << out[Len(out)] >>
               /\ last.sec # "None" =>
                   /\ out[Len(out)] = last.line
                   /\ last.line # FENCE
               /\ last.sec = "None" => last.line \in OpenerLines
    /\ (done /\ Consumed = << FENCE \o RUST, << "x" >> >>) => out = Consumed

\* The input ended inside a Rust block after a content line.
UnterminatedFenceWitness ==
    /\ done
    /\ section = "Rust"
    /\ Consumed = << FENCE \o RUST, << "x" >> >>
    /\ out = << FENCE \o RUST, << "x" >> >>

\* C13  Termination: the caller that pulls until None gets None, and gets it
\* only when the iterator is empty; the number of calls never exceeds the
\* number of lines plus one.
Termination ==
    /\ <>done
    /\ [](done => iter = << >>)
    /\ [](pulls <= Len(Input) + 1)

\* The run is over after three calls: the second ran the hidden-line loop
\* over two lines, the third ran it to the end of the input.
TerminationWitness ==
    /\ done
    /\ pulls = 3
    /\ Consumed = << FENCE, << "#", " ", "h" >>, << "#", " ", "h" >>, << "x" >>,
                     << "#", " ", "h" >> >>
    /\ out = << FENCE \o RUST, << "x" >> >>
    /\ iter = << >>

\* C14  End-to-end scenario: with indent_headings set, a heading followed by
\* a bare-fence block holding an attribute line, a statement and a hidden
\* statement comes out with the heading one level deeper, the opener as
\* ```rust, the attribute and the statement as read, the hidden statement
\* gone and the closing fence as read; the block alone comes out the same way.
EndToEndScenario ==
    /\ (/\ indent_headings
        /\ Consumed = << HEADING, FENCE, VISIBLE, LET_X, HIDDEN_LET, FENCE >>)
           => /\ out = << << "#", "#", " ", "h" >>, FENCE \o RUST, VISIBLE, LET_X,
                          FENCE >>
              /\ section = "None"
    /\ (/\ indent_headings
        /\ Consumed = << FENCE, VISIBLE, LET_X, HIDDEN_LET, FENCE >>)
           => /\ out = << FENCE \o RUST, VISIBLE, LET_X, FENCE >>
              /\ section = "None"

\* The six lines of the scenario were read to the end with indent_headings
\* set, and five lines came out.
EndToEndScenarioWitness ==
    /\ indent_headings
    /\ done
    /\ Consumed = << HEADING, FENCE, VISIBLE, LET_X, HIDDEN_LET, FENCE >>
    /\ Len(out) = 5
    /\ out[1] = << "#" >> \o HEADING
    /\ out[5] = FENCE

\* C15  Instance independence: with the calls of two transformers
\* interleaved in any order, each emits a prefix of what it emits when run
\* alone, and all of it once it is done; a call on one changes nothing of the
\* other; a transformer starts in None whatever state the other is in.
IsPrefix(a, b) == Len(a) <= Len(b) /\ SubSeq(b, 1, Len(a)) = a

InstanceIndependence ==
    /\ [](/\ IsPrefix(out, RunAlone(Input, indent_headings))
          /\ done => out = RunAlone(Input, indent_headings)
          /\ second.born =>
                /\ IsPrefix(second.out, RunAlone(InputSecond, second.indent_headings))
                /\ second.done =>
                      second.out = RunAlone(InputSecond, second.indent_headings)
                /\ second.pulls = 0 => second.section = "None"
                /\ second.log # << >> => second.log[1].sec = "None")
    /\ [][/\ second' # second =>
                UNCHANGED << iter, indent_headings, section, out, done, pulls, log >>
          /\ << iter, section, out, done, pulls, log >>' #
             << iter, section, out, done, pulls, log >> => second' = second]_vars

\* The first transformer ended inside a Rust block; the second, constructed
\* over a document of its own, read its first line as a heading.
InstanceIndependenceWitness ==
    /\ done
    /\ section = "Rust"
    /\ Consumed = << FENCE, << "#", " ", "h" >> >>
    /\ out = << FENCE \o RUST >>
    /\ second.born
    /\ second.done
    /\ second.indent_headings
    /\ ConsumedSecond = << << "#", " ", "h" >>, FENCE >>
    /\ second.out = << << "#", "#", " ", "h" >>, FENCE \o RUST >>
    /\ second.section = "Rust"

PlannedFailures ==
    { k \in DOMAIN Planned(proc.no_template) : Planned(proc.no_template)[k] \in proc.fails }

ErrorReporting ==
    (proc.pc = "exited" /\ proc.sub) =>
        LET planned == Planned(proc.no_template)
            ran == proc.ran
        IN  /\ Len(ran) <= Len(planned)
            /\ ran = SubSeq(planned, 1, Len(ran))
            /\ \A k \in 1..(Len(ran) - 1) : ran[k] \notin proc.fails
            /\ PlannedFailures = { } =>
                /\ ran = planned
                /\ proc.stderr = << >>
                /\ proc.exit = 0
            /\ PlannedFailures # { } =>
                /\ ran # << >>
                /\ ran[Len(ran)] \in proc.fails
                /\ \A k \in PlannedFailures : Len(ran) <= k
                /\ proc.stderr = << << "Error: ", ran[Len(ran)] >> >>
                /\ proc.exit = 1
            /\ (\E k \in DOMAIN ran : ran[k] = "write") =>
                /\ { "root", "source", "dest", "generate" } \cap proc.fails = { }
                /\ { ran[k] : k \in 1..(Len(ran) - 1) } =
                       { "root", "source", "dest", "generate" }
                           \cup (IF proc.no_template THEN { } ELSE { "template" })
                /\ ~proc.no_template => "template" \notin proc.fails

\* Generation failed after root, source, destination and template succeeded:
\* one line on stderr, status 1, nothing written.
ErrorReportingWitness ==
    /\ proc.pc = "exited"
    /\ proc.sub
    /\ ~proc.no_template
    /\ proc.fails = { "generate", "write" }
    /\ proc.ran = << "root", "source", "dest", "template", "generate" >>
    /\ proc.stderr = << << "Error: ", "generate" >> >>
    /\ proc.exit = 1

\* C18  Fence-open classification order: ```rust and ```text also fit the
\* other-language pattern, yet in None the first is emitted as ```rust and
\* opens a Rust block and the second is emitted as ``` and opens an Other
\* block; a tag next to the Rust spellings that only fits the other-language
\* pattern opens an Other block, is emitted as read, and the "# " lines of
\* its block are emitted as read.
NearRustBlockAt(j) ==
    \E i \in 1..(j - 1) :
        /\ log[i].sec = "None"
        /\ log[i].line \in NearRustOpeners
        /\ \A k \in (i + 1)..j : log[k].sec = "Other"

ClassificationOrder ==
    /\ REGEX_CODE_OTHER(FENCE \o RUST)
    /\ REGEX_CODE_OTHER(FENCE \o TEXT)
    /\ \A l \in NearRustOpeners : REGEX_CODE_OTHER(l)
    /\ \A i \in DOMAIN log :
        /\ (log[i].sec = "None" /\ log[i].line = FENCE \o RUST)
               => (log[i].res = << FENCE \o RUST >> /\ SecAfter(i) = "Rust")
        /\ (log[i].sec = "None" /\ log[i].line = FENCE \o TEXT)
               => (log[i].res = << FENCE >> /\ SecAfter(i) = "Other")
        /\ (log[i].sec = "None" /\ log[i].line \in NearRustOpeners)
               => (log[i].res = << log[i].line >> /\ SecAfter(i) = "Other")
        /\ (NearRustBlockAt(i) /\ HiddenLine(log[i].line))
               => log[i].res = << log[i].line >>

\* A block opened by ```rust,no_run,ignore kept its "# " line and was closed.
ClassificationOrderWitness ==
    /\ indent_headings
    /\ Consumed = << FENCE \o RUST \o COMMA \o NO_RUN \o COMMA \o IGNORE,
                     << "#", " ", "h" >>, FENCE >>
    /\ log[2].sec = "Other"
    /\ out = Consumed
    /\ section = "None"

\* C19  Unrecognized fence-like line: a line that begins with three backticks
\* and fits none of the three patterns, read in None, is emitted as read and
\* leaves the section None; the bare fence does not fit the other-language
\* pattern and in None always opens a Rust block.
UnrecognizedFenceLine ==
    /\ ~REGEX_CODE_OTHER(FENCE)
    /\ \A i \in DOMAIN log :
        /\ (log[i].sec = "None" /\ log[i].line \in UnrecognizedFences)
               => (log[i].res = << log[i].line >> /\ SecAfter(i) = "None")
        /\ (log[i].sec = "None" /\ log[i].line = FENCE)
               => (log[i].res = << FENCE \o RUST >> /\ SecAfter(i) = "Rust")

\* Two unrecognized openers were passed through in None, and the bare fence
\* after them opened a Rust block.
UnrecognizedFenceLineWitness ==
    /\ Consumed = << FENCE \o << " " >> \o RUST,
                     FENCE \o << "{", "." >> \o RUST \o << "}" >>, FENCE >>
    /\ log[2].sec = "None"
    /\ log[3].sec = "None"
    /\ out = << Consumed[1], Consumed[2], FENCE \o RUST >>
    /\ section = "Rust"

\* C20  With indent_headings set, no line emitted for a line read in None is
\* a level-1 heading: if it begins with # it begins with ##.
NoLevelOneHeading ==
    indent_headings =>
        \A i \in DOMAIN log :
            (/\ log[i].sec = "None"
             /\ log[i].res # << >>
             /\ HashLine(log[i].res[1]))
                => StartsWith(log[i].res[1], << "#", "#" >>)

\* The line # alone and a level-1 heading were read in None with
\* indent_headings set and came out one level deeper.
NoLevelOneHeadingWitness ==
    /\ indent_headings
    /\ Len(log) = 2
    /\ Consumed = << << "#" >>, << "#", " ", "h" >> >>
    /\ out = << << "#", "#" >>, << "#", "#", " ", "h" >> >>

\* C21  Rewrite frame: an emitted line differs from the line it was read as
\* only when that line was read in None and is a line beginning with # under
\* indent_headings (one # prepended), one of the Rust opener spellings
\* (emitted as ```rust) or ```text (emitted as ```); every line emitted for a
\* line read in Rust or Other, the closing ``` included, and every other
\* line read in None is emitted as read.
RewriteFrame ==
    \A i \in DOMAIN log :
        log[i].res # << >> =>
            LET s == log[i].sec
                l == log[i].line
                o == log[i].res[1]
                heading == indent_headings /\ HashLine(l)
            IN  /\ o # l =>
                    /\ s = "None"
                    /\ \/ heading /\ o = << "#" >> \o l
                       \/ l \in RustSpellings /\ o = FENCE \o RUST
                       \/ l = FENCE \o TEXT /\ o = FENCE
                /\ s # "None" => o = l
                /\ (/\ s = "None"
                    /\ ~heading
                    /\ l \notin RustSpellings
                    /\ l # FENCE \o TEXT) => o = l

\* With indent_headings set, a python opener read in None, a heading read
\* inside the block and the closing ``` all came out as read.
RewriteFrameWitness ==
    /\ indent_headings
    /\ Consumed = << FENCE \o PYTHON, << "#", " ", "h" >>, FENCE >>
    /\ log[2].sec = "Other"
    /\ log[3].sec = "Other"
    /\ section = "None"
    /\ out = Consumed

====
